---- MODULE Spec2Model ----
(***************************************************************************)
(* laa: lazy_all and lazy_any (src/src/laa/laa.py).                        *)
(*                                                                         *)
(* Each call of lazy_all / lazy_any is a small state machine: the for      *)
(* loop's position, lazy_all's local counter `evaluated`, and the point    *)
(* where a thunk has been called and has not yet returned.  The variables  *)
(* are functions over the set of calls in progress, so the same actions    *)
(* describe one call alone and several calls interleaved.                  *)
(***************************************************************************)
EXTENDS Integers, Sequences, FiniteSets

VARIABLES
    fn,                  \* call -> "lazy_all" | "lazy_any"
    list_of_conditions,  \* call -> the argument list
    idx,                 \* call -> position of the for loop (1-based index of `condition`)
    evaluated,           \* call -> lazy_all's local counter (stays 0 in lazy_any)
    pc,                  \* call -> "loop" | "call" | "returned" | "raised"
    result,              \* call -> "None" | "True" | "False"  (the returned bool)
    error,               \* call -> "None" | the exception that left the call
    invoked              \* call -> sequence of list indices whose thunk was invoked

vars == <<fn, list_of_conditions, idx, evaluated, pc, result, error, invoked>>

----------------------------------------------------------------------------
(* Bounds *)

MaxLen == 3

MaxLenConc == 2

----------------------------------------------------------------------------
(* Python values and list entries *)

PyBool(b) == [type |-> "bool", n |-> b]

PyInt(k) == [type |-> "int", n |-> k]

\* values a thunk of the doctests produces: 0 == 0, 1 == 0, 5, 0
ReturnValues == {PyBool(1), PyBool(0), PyInt(5), PyInt(0)}

\* a list entry: kind is its Python type (bool, int, types.FunctionType, or
\* a callable of another type: a bound method, a builtin, a partial, an
\* object with __call__).  For bool/int entries val is the entry itself; for
\* function/callable entries val is what a call of it returns and exc the
\* exception it raises instead ("None": it returns).
Entry(k, v, e) == [kind |-> k, val |-> v, exc |-> e]

BoolConds == {Entry("bool", PyBool(b), "None") : b \in {0, 1}}

IntConds == {Entry("int", PyInt(k), "None") : k \in {0, 5}}

FuncConds ==
    {Entry("function", v, "None") : v \in ReturnValues}
        \cup {Entry("function", PyInt(0), "ValueError")}

CallableConds == {Entry("callable", v, "None") : v \in {PyInt(5), PyInt(0)}}

Conditions == BoolConds \cup IntConds \cup FuncConds \cup CallableConds

\* entries of the interleaved runs
ConcConditions ==
    { Entry("bool", PyBool(1), "None"),
      Entry("int", PyInt(5), "None"),
      Entry("function", PyInt(5), "None"),
      Entry("function", PyInt(0), "None"),
      Entry("function", PyInt(0), "ValueError") }

ListsOver(S, n) == UNION {[1..k -> S] : k \in 0..n}

Funcs == {"lazy_all", "lazy_any"}

----------------------------------------------------------------------------
(* The tests of the loop body *)

IsBoolOrInt(c) == c.kind \in {"bool", "int"}

\* isinstance(condition, bool)
IsBool(c) == c.kind = "bool"

IsAnyCallable(c) == c.kind \in {"function", "callable"}

\* isinstance(condition, types.FunctionType)
IsFunctionType(c) == c.kind = "function"

\* the else branch: continue
IsSkipped(c) == ~IsBool(c) /\ ~IsFunctionType(c)

IsTrue(v) == v.type = "bool" /\ v.n = 1

\* Python truthiness of a bool or an int
Truthy(v) == v.n # 0

NeverStops(v) == FALSE

\* lazy_all: if not condition_value
AllStops(v) == ~Truthy(v)

\* lazy_any: if condition_value
AnyStops(v) == Truthy(v)

AtLeastZero(ev) == ev >= 0

AlwaysTrue(ev) == TRUE

\* lazy_all: return evaluated > 0
AllFinal(ev) == ev > 0

\* lazy_any: return False
AnyFinal == FALSE

PyStr(b) == IF b THEN "True" ELSE "False"

IncShared(ev, p) == [q \in DOMAIN ev |-> ev[q] + 1]

\* evaluated += 1 on the call's own local
IncEvaluated(ev, p) == [ev EXCEPT ![p] = @ + 1]

SkipOne(i) == i + 2

\* the for loop takes the next element
NextIdx(i) == i + 1

Cur(p) == list_of_conditions[p][idx[p]]

InLoop(p) == pc[p] = "loop" /\ idx[p] <= Len(list_of_conditions[p])

----------------------------------------------------------------------------
(* Steps of a call *)

Returns(p, b) ==
    /\ pc' = [pc EXCEPT ![p] = "returned"]
    /\ result' = [result EXCEPT ![p] = PyStr(b)]
    /\ idx' = idx

Continues(p) ==
    /\ pc' = [pc EXCEPT ![p] = "loop"]
    /\ idx' = [idx EXCEPT ![p] = NextIdx(@)]
    /\ result' = result

Swallow(p, e) ==
    /\ Returns(p, FALSE)
    /\ UNCHANGED <<fn, list_of_conditions, evaluated, error, invoked>>

\* condition() raises: nothing in lazy_all / lazy_any catches it, the
\* exception leaves the call
Propagate(p, e) ==
    /\ pc' = [pc EXCEPT ![p] = "raised"]
    /\ error' = [error EXCEPT ![p] = e]
    /\ UNCHANGED <<fn, list_of_conditions, idx, evaluated, result, invoked>>

\* lazy_all, condition is a bool: count it, test it
AllBool(p) ==
    /\ fn[p] = "lazy_all" /\ InLoop(p) /\ IsBool(Cur(p))
    /\ evaluated' = IncEvaluated(evaluated, p)
    /\ IF AllStops(Cur(p).val) THEN Returns(p, FALSE) ELSE Continues(p)
    /\ UNCHANGED <<fn, list_of_conditions, error, invoked>>

\* lazy_all, condition is a function: count it, then call it
AllCall(p) ==
    /\ fn[p] = "lazy_all" /\ InLoop(p) /\ ~IsBool(Cur(p)) /\ IsFunctionType(Cur(p))
    /\ evaluated' = IncEvaluated(evaluated, p)
    /\ invoked' = [invoked EXCEPT ![p] = Append(@, idx[p])]
    /\ pc' = [pc EXCEPT ![p] = "call"]
    /\ UNCHANGED <<fn, list_of_conditions, idx, result, error>>

\* lazy_all, the called function returns condition_value: test it
AllThunkReturn(p) ==
    /\ fn[p] = "lazy_all" /\ pc[p] = "call" /\ Cur(p).exc = "None"
    /\ IF AllStops(Cur(p).val) THEN Returns(p, FALSE) ELSE Continues(p)
    /\ UNCHANGED <<fn, list_of_conditions, evaluated, error, invoked>>

\* lazy_all, the called function raises
AllThunkRaise(p) ==
    /\ fn[p] = "lazy_all" /\ pc[p] = "call" /\ Cur(p).exc # "None"
    /\ Propagate(p, Cur(p).exc)

\* lazy_all, any other entry: continue
AllSkip(p) ==
    /\ fn[p] = "lazy_all" /\ InLoop(p) /\ IsSkipped(Cur(p))
    /\ idx' = [idx EXCEPT ![p] = NextIdx(@)]
    /\ UNCHANGED <<fn, list_of_conditions, evaluated, pc, result, error, invoked>>

\* lazy_all, the loop is exhausted: return evaluated > 0
AllLoopEnd(p) ==
    /\ fn[p] = "lazy_all" /\ pc[p] = "loop" /\ idx[p] > Len(list_of_conditions[p])
    /\ Returns(p, AllFinal(evaluated[p]))
    /\ UNCHANGED <<fn, list_of_conditions, evaluated, error, invoked>>

\* lazy_any, condition is a bool: test it
AnyBool(p) ==
    /\ fn[p] = "lazy_any" /\ InLoop(p) /\ IsBool(Cur(p))
    /\ IF AnyStops(Cur(p).val) THEN Returns(p, TRUE) ELSE Continues(p)
    /\ UNCHANGED <<fn, list_of_conditions, evaluated, error, invoked>>

\* lazy_any, condition is a function: call it
AnyCall(p) ==
    /\ fn[p] = "lazy_any" /\ InLoop(p) /\ ~IsBool(Cur(p)) /\ IsFunctionType(Cur(p))
    /\ invoked' = [invoked EXCEPT ![p] = Append(@, idx[p])]
    /\ pc' = [pc EXCEPT ![p] = "call"]
    /\ UNCHANGED <<fn, list_of_conditions, idx, evaluated, result, error>>

\* lazy_any, the called function returns condition_value: test it
AnyThunkReturn(p) ==
    /\ fn[p] = "lazy_any" /\ pc[p] = "call" /\ Cur(p).exc = "None"
    /\ IF AnyStops(Cur(p).val) THEN Returns(p, TRUE) ELSE Continues(p)
    /\ UNCHANGED <<fn, list_of_conditions, evaluated, error, invoked>>

\* lazy_any, the called function raises
AnyThunkRaise(p) ==
    /\ fn[p] = "lazy_any" /\ pc[p] = "call" /\ Cur(p).exc # "None"
    /\ Propagate(p, Cur(p).exc)

\* lazy_any, any other entry: continue
AnySkip(p) ==
    /\ fn[p] = "lazy_any" /\ InLoop(p) /\ IsSkipped(Cur(p))
    /\ idx' = [idx EXCEPT ![p] = NextIdx(@)]
    /\ UNCHANGED <<fn, list_of_conditions, evaluated, pc, result, error, invoked>>

\* lazy_any, the loop is exhausted: return False
AnyLoopEnd(p) ==
    /\ fn[p] = "lazy_any" /\ pc[p] = "loop" /\ idx[p] > Len(list_of_conditions[p])
    /\ Returns(p, AnyFinal)
    /\ UNCHANGED <<fn, list_of_conditions, evaluated, error, invoked>>

Calls == DOMAIN pc

Next ==
    \/ \E p \in Calls : AllBool(p)
    \/ \E p \in Calls : AllCall(p)
    \/ \E p \in Calls : AllThunkReturn(p)
    \/ \E p \in Calls : AllThunkRaise(p)
    \/ \E p \in Calls : AllSkip(p)
    \/ \E p \in Calls : AllLoopEnd(p)
    \/ \E p \in Calls : AnyBool(p)
    \/ \E p \in Calls : AnyCall(p)
    \/ \E p \in Calls : AnyThunkReturn(p)
    \/ \E p \in Calls : AnyThunkRaise(p)
    \/ \E p \in Calls : AnySkip(p)
    \/ \E p \in Calls : AnyLoopEnd(p)

----------------------------------------------------------------------------
(* Entry of the calls: evaluated = 0, the loop before the first element *)

Start(f, l) ==
    /\ fn = f
    /\ list_of_conditions = l
    /\ idx = [p \in DOMAIN f |-> 1]
    /\ evaluated = [p \in DOMAIN f |-> 0]
    /\ pc = [p \in DOMAIN f |-> "loop"]
    /\ result = [p \in DOMAIN f |-> "None"]
    /\ error = [p \in DOMAIN f |-> "None"]
    /\ invoked = [p \in DOMAIN f |-> <<>>]

\* one call, of either function, on any list
Init ==
    \E f \in Funcs, l \in ListsOver(Conditions, MaxLen) :
        Start([p \in {1} |-> f], [p \in {1} |-> l])

Spec == Init /\ [][Next]_vars

\* two calls on independent lists, interleaved at every step
InitConc ==
    \E f \in [{1, 2} -> Funcs], l \in [{1, 2} -> ListsOver(ConcConditions, MaxLenConc)] :
        Start(f, l)

SpecConc == InitConc /\ [][Next]_vars

\* lazy_all and lazy_any on the same list
InitBoth ==
    \E l \in ListsOver(Conditions, MaxLen) :
        Start([p \in {1, 2} |-> IF p = 1 THEN "lazy_all" ELSE "lazy_any"],
              [p \in {1, 2} |-> l])

SpecBoth == InitBoth /\ [][Next]_vars

----------------------------------------------------------------------------
(* Vocabulary of the properties, stated on the entries themselves *)

L(p) == list_of_conditions[p]

Indices(l) == 1..Len(l)

\* a boolean or a thunk
Evaluable(c) == c.kind \in {"bool", "function"}

\* an evaluable entry whose value is truthy / falsy (a raising thunk is neither)
Holds(c) == Evaluable(c) /\ c.exc = "None" /\ c.val.n # 0

Fails(c) == Evaluable(c) /\ c.exc = "None" /\ c.val.n = 0

Done(p) == pc[p] \in {"returned", "raised"}

\* entry i of call p has been evaluated (its value is known to the call)
Evaluated(p, i) ==
    \/ i < idx[p]
    \/ i = idx[p] /\ Done(p)

InvokedSet(p) == {invoked[p][k] : k \in DOMAIN invoked[p]}

IndexSeq(l) == [i \in Indices(l) |-> i]

\* the thunks among the first n entries, in list order
ThunksUpTo(l, n) == SelectSeq(IndexSeq(l), LAMBDA i : i <= n /\ l[i].kind = "function")

\* the entry that decides a call: the first falsy one for lazy_all, the first
\* truthy one for lazy_any, or the first thunk that raises
Decides(f, c) ==
    \/ Evaluable(c) /\ c.exc # "None"
    \/ f = "lazy_all" /\ Fails(c)
    \/ f = "lazy_any" /\ Holds(c)

DecidingIdx(f, l) ==
    IF \E i \in Indices(l) : Decides(f, l[i])
    THEN CHOOSE i \in Indices(l) :
             Decides(f, l[i]) /\ \A j \in 1..(i - 1) : ~Decides(f, l[j])
    ELSE Len(l) + 1

\* what a call of f on l does when it runs alone
AloneInvoked(f, l) == ThunksUpTo(l, DecidingIdx(f, l))

AloneError(f, l) ==
    IF DecidingIdx(f, l) <= Len(l) THEN l[DecidingIdx(f, l)].exc ELSE "None"

AloneResult(f, l) ==
    IF DecidingIdx(f, l) <= Len(l)
    THEN IF l[DecidingIdx(f, l)].exc # "None" THEN "None"
         ELSE IF f = "lazy_all" THEN "False" ELSE "True"
    ELSE IF f = "lazy_all" /\ \E i \in Indices(l) : Evaluable(l[i])
         THEN "True" ELSE "False"

\* the list without the entries that are neither a boolean nor a thunk
Strip(l) == SelectSeq(l, Evaluable)

\* the same function on a list and on that list without its non-conditions
InitStrip ==
    \E f \in Funcs, l \in ListsOver(Conditions, MaxLen) :
        Start([p \in {1, 2} |-> f], [p \in {1, 2} |-> IF p = 1 THEN l ELSE Strip(l)])

SpecStrip == InitStrip /\ [][Next]_vars

----------------------------------------------------------------------------
(* Properties *)

\* C1: a lazy_all call that returns (no thunk raised) returns True iff the
\* list has at least one evaluable entry and every evaluable entry is
\* truthy; so False for [] and for a list of non-conditions only.
C1_LazyAllResult ==
    \A p \in Calls :
        fn[p] = "lazy_all" /\ pc[p] = "returned" =>
            /\ result[p] \in {"True", "False"}
            /\ result[p] = "True" <=>
                   /\ \E i \in Indices(L(p)) : Evaluable(L(p)[i])
                   /\ \A i \in Indices(L(p)) : Evaluable(L(p)[i]) => Holds(L(p)[i])

C1_Witness ==
    \E p \in Calls :
        /\ fn[p] = "lazy_all" /\ pc[p] = "returned" /\ result[p] = "True"
        /\ \E i, j \in Indices(L(p)) : L(p)[i].kind = "function" /\ L(p)[j].kind = "int"

\* C2: a lazy_any call that returns (no invoked thunk raised) returns True
\* iff some evaluable entry is truthy; so False for [], for non-conditions
\* only, and when every evaluable entry is falsy.
C2_LazyAnyResult ==
    \A p \in Calls :
        fn[p] = "lazy_any" /\ pc[p] = "returned" =>
            /\ result[p] \in {"True", "False"}
            /\ result[p] = "True" <=> \E i \in Indices(L(p)) : Holds(L(p)[i])

C2_Witness ==
    \E p \in Calls :
        /\ fn[p] = "lazy_any" /\ pc[p] = "returned" /\ result[p] = "True"
        /\ L(p)[idx[p]] = Entry("function", PyInt(5), "None")
        /\ \E j \in Indices(L(p)) : Fails(L(p)[j])

\* C3: in lazy_all, once a falsy entry at index i has been evaluated the call
\* has returned False right there (the scan never moves past i) and no thunk
\* at an index above i is invoked.
C3_AllShortCircuit ==
    \A p \in Calls : \A i \in Indices(L(p)) :
        fn[p] = "lazy_all" /\ Fails(L(p)[i]) /\ Evaluated(p, i) =>
            /\ pc[p] = "returned" /\ result[p] = "False" /\ idx[p] = i
            /\ \A j \in InvokedSet(p) : j <= i

C3_Witness ==
    \E p \in Calls :
        /\ fn[p] = "lazy_all" /\ pc[p] = "returned" /\ result[p] = "False"
        /\ idx[p] < Len(L(p))
        /\ L(p)[idx[p]].kind = "function" /\ L(p)[idx[p] + 1].kind = "function"

\* C4: in lazy_any, a thunk at index j is invoked only after every evaluable
\* entry below j was evaluated and found falsy (the thunks among them invoked
\* before it); once a truthy entry at index i has been evaluated the call has
\* returned True right there and no thunk above i is invoked.
C4_AnyOrderShortCircuit ==
    \A p \in Calls : fn[p] = "lazy_any" =>
        /\ \A k \in DOMAIN invoked[p] : \A i \in 1..(invoked[p][k] - 1) :
               Evaluable(L(p)[i]) =>
                   /\ Fails(L(p)[i])
                   /\ L(p)[i].kind = "function" =>
                          \E m \in 1..(k - 1) : invoked[p][m] = i
        /\ \A i \in Indices(L(p)) :
               Holds(L(p)[i]) /\ Evaluated(p, i) =>
                   /\ pc[p] = "returned" /\ result[p] = "True" /\ idx[p] = i
                   /\ \A j \in InvokedSet(p) : j <= i

C4_Witness ==
    \E p \in Calls :
        /\ fn[p] = "lazy_any" /\ pc[p] = "returned" /\ result[p] = "True"
        /\ invoked[p] = <<1, 2>> /\ idx[p] = 2
        /\ Len(L(p)) > 2 /\ L(p)[3].kind = "function"

\* the entries the calls invoked, in the order they invoked them
InvokedEntries(p) == [k \in DOMAIN invoked[p] |-> L(p)[invoked[p][k]]]

\* C5: an entry that is neither a boolean nor a thunk is never invoked and
\* not counted by lazy_all, and the call on the list (call 1) ends as the call
\* on the list without these entries (call 2): same result, same error, same
\* thunks invoked in the same order, same tally.
C5_NonConditionsSkipped ==
    /\ \A p \in Calls : \A i \in InvokedSet(p) : Evaluable(L(p)[i])
    /\ \A p \in Calls :
           fn[p] = "lazy_all" /\ pc[p] = "loop" =>
               evaluated[p] = Cardinality({i \in 1..(idx[p] - 1) : Evaluable(L(p)[i])})
    /\ Done(1) /\ Done(2) /\ fn[1] = fn[2] /\ L(2) = Strip(L(1)) =>
           /\ pc[1] = pc[2] /\ result[1] = result[2] /\ error[1] = error[2]
           /\ InvokedEntries(1) = InvokedEntries(2)
           /\ evaluated[1] = evaluated[2]

C5_Witness ==
    /\ Done(1) /\ Done(2) /\ fn[1] = "lazy_all" /\ fn[2] = "lazy_all"
    /\ result[1] = "True" /\ result[2] = "True"
    /\ Len(L(1)) = 3 /\ L(2) = Strip(L(1)) /\ Len(L(2)) = 1
    /\ L(1)[1] = Entry("int", PyInt(0), "None")
    /\ L(1)[2].kind = "function"

\* C6 as stated: every callable entry the scan has passed, of whatever
\* callable kind, was invoked.
C6_EveryCallableInvoked ==
    \A p \in Calls : \A i \in Indices(L(p)) :
        i < idx[p] /\ L(p)[i].kind \in {"function", "callable"} => i \in InvokedSet(p)

\* C6 amended: the entries treated as thunks are exactly the plain functions
\* (types.FunctionType); an entry the scan has passed was invoked iff it is
\* one, it is counted by lazy_all iff it is a boolean or one, and a callable
\* of any other kind is skipped like a non-condition.
C6_OnlyFunctionsInvoked ==
    \A p \in Calls :
        /\ \A i \in Indices(L(p)) :
               i < idx[p] => (i \in InvokedSet(p) <=> L(p)[i].kind = "function")
        /\ \A i \in InvokedSet(p) : L(p)[i].kind = "function"
        /\ fn[p] = "lazy_all" /\ pc[p] = "loop" =>
               evaluated[p] =
                   Cardinality({i \in 1..(idx[p] - 1) : L(p)[i].kind \in {"bool", "function"}})

C6_Witness ==
    \E p \in Calls : \E i, j \in Indices(L(p)) :
        /\ pc[p] = "returned" /\ i < idx[p] /\ j < idx[p]
        /\ L(p)[i].kind = "callable" /\ i \notin InvokedSet(p)
        /\ L(p)[j].kind = "function" /\ j \in InvokedSet(p)

\* C7: once an invoked thunk has raised, the call has ended in that same
\* exception: nothing is returned, the thunk was invoked once, it is the last
\* one invoked, and the scan stays at it.
C7_RaisePropagates ==
    \A p \in Calls :
        /\ \A i \in InvokedSet(p) :
               L(p)[i].exc # "None" /\ ~(pc[p] = "call" /\ idx[p] = i) =>
                   /\ pc[p] = "raised" /\ error[p] = L(p)[i].exc
                   /\ result[p] = "None" /\ idx[p] = i
                   /\ invoked[p][Len(invoked[p])] = i
                   /\ Cardinality({k \in DOMAIN invoked[p] : invoked[p][k] = i}) = 1
        /\ pc[p] = "raised" => idx[p] \in InvokedSet(p) /\ L(p)[idx[p]].exc # "None"
        /\ pc[p] # "raised" => error[p] = "None"

C7_Witness ==
    \E p \in Calls :
        /\ pc[p] = "raised" /\ error[p] = "ValueError" /\ result[p] = "None"
        /\ Len(invoked[p]) = 2 /\ idx[p] < Len(L(p))
        /\ Evaluable(L(p)[idx[p] + 1])

IsPrefix(s, t) == Len(s) <= Len(t) /\ \A k \in DOMAIN s : s[k] = t[k]

\* C8: of two interleaved calls, each invokes a prefix of the thunks it
\* invokes when run alone, never more than its own scan has reached, counts
\* only its own entries, and ends with the result, error and invocation
\* sequence it has when run alone on its own list.
C8_NoInterference ==
    \A p \in Calls :
        /\ IsPrefix(invoked[p], AloneInvoked(fn[p], L(p)))
        /\ evaluated[p] <= Len(L(p))
        /\ Done(p) =>
               /\ result[p] = AloneResult(fn[p], L(p))
               /\ error[p] = AloneError(fn[p], L(p))
               /\ invoked[p] = AloneInvoked(fn[p], L(p))

C8_Witness ==
    /\ Calls = {1, 2} /\ Done(1) /\ Done(2)
    /\ fn[1] = "lazy_all" /\ fn[2] = "lazy_all"
    /\ evaluated[1] = 0 /\ Len(L(1)) = 2 /\ result[1] = "False"
    /\ evaluated[2] = 2 /\ Len(invoked[2]) = 2 /\ result[2] = "True"

\* the last entry the scan of call p has reached
Reached(p) ==
    IF pc[p] = "loop" THEN idx[p] - 1
    ELSE IF idx[p] <= Len(L(p)) THEN idx[p] ELSE Len(L(p))

\* C9: at every moment the invocations of a call are exactly the thunks among
\* the entries its scan has reached, each once, in increasing index order; and
\* when the call ends the scan has reached the deciding entry, or the end of
\* the list when none decides.
C9_InvocationOrder ==
    \A p \in Calls :
        /\ invoked[p] = ThunksUpTo(L(p), Reached(p))
        /\ \A k, m \in DOMAIN invoked[p] : k < m => invoked[p][k] < invoked[p][m]
        /\ Done(p) =>
               Reached(p) = IF DecidingIdx(fn[p], L(p)) <= Len(L(p))
                            THEN DecidingIdx(fn[p], L(p)) ELSE Len(L(p))

C9_Witness ==
    \E p \in Calls :
        /\ Done(p) /\ invoked[p] = <<1, 3>> /\ Len(L(p)) = 3

\* C10: on one list, lazy_all (call 1) returning True implies lazy_any
\* (call 2) returning True; for [] both return False.
C10_AllImpliesAny ==
    /\ fn[1] = "lazy_all" /\ fn[2] = "lazy_any" /\ L(1) = L(2)
           /\ pc[1] = "returned" /\ Done(2) /\ result[1] = "True"
       => pc[2] = "returned" /\ result[2] = "True"
    /\ fn[1] = "lazy_all" /\ fn[2] = "lazy_any" /\ L(1) = <<>> /\ L(2) = <<>>
           /\ Done(1) /\ Done(2)
       => result[1] = "False" /\ result[2] = "False"

C10_Witness ==
    /\ fn[1] = "lazy_all" /\ fn[2] = "lazy_any" /\ L(1) = L(2)
    /\ pc[1] = "returned" /\ result[1] = "True"
    /\ pc[2] = "returned" /\ result[2] = "True"
    /\ Len(L(1)) = 3 /\ Len(invoked[1]) = 2 /\ Len(invoked[2]) = 1

====
